---- MODULE Spec2Model ----
\* Model of generator.py: fetch -> parse -> classify -> deduplicate -> write.
\* A Python str is modelled as a sequence of one-character strings, so that
\* strip(), lower(), the regular expression, "in", sorted() and "\n".join()
\* are computed character by character.
EXTENDS Integers, Sequences, FiniteSets, TLC

\* ---------------------------------------------------------------------
\* Characters and str methods
\* ---------------------------------------------------------------------
UPPER == <<"A","B","C","D","E","F","G","H","I","J","K","L","M","N","O","P","Q","R","S","T","U","V","W","X","Y","Z">>

LOWER == <<"a","b","c","d","e","f","g","h","i","j","k","l","m","n","o","p","q","r","s","t","u","v","w","x","y","z">>

DIGITS == <<"0","1","2","3","4","5","6","7","8","9">>

\* punctuation used by the rule format, in code point order
PUNCT == <<"\t", "\n", " ", "#", ",", "-", ".", "/", "=", "_">>

PUNCTCODE == <<9, 10, 32, 35, 44, 45, 46, 47, 61, 95>>

IndexOf(c, s) == CHOOSE i \in 1..Len(s) : s[i] = c

InSeq(c, s) == \E i \in 1..Len(s) : s[i] = c

\* ord(c)
Ord(c) ==
  IF InSeq(c, UPPER) THEN 64 + IndexOf(c, UPPER)
  ELSE IF InSeq(c, LOWER) THEN 96 + IndexOf(c, LOWER)
  ELSE IF InSeq(c, DIGITS) THEN 47 + IndexOf(c, DIGITS)
  ELSE PUNCTCODE[IndexOf(c, PUNCT)]

\* str.isspace() / the regex class \s, on one character
IsSpace(c) == c \in {" ", "\t", "\n"}

\* the regex class \w, on one character
IsWord(c) == InSeq(c, UPPER) \/ InSeq(c, LOWER) \/ InSeq(c, DIGITS) \/ c = "_"

LowerChar(c) == IF InSeq(c, UPPER) THEN LOWER[IndexOf(c, UPPER)] ELSE c

\* str.lower()
Lower(s) == [i \in 1..Len(s) |-> LowerChar(s[i])]

\* str.strip()
Strip(s) ==
  IF \A i \in 1..Len(s) : IsSpace(s[i]) THEN <<>>
  ELSE LET lo == CHOOSE i \in 1..Len(s) : ~IsSpace(s[i]) /\ \A j \in 1..(i - 1) : IsSpace(s[j])
           hi == CHOOSE i \in 1..Len(s) : ~IsSpace(s[i]) /\ \A j \in (i + 1)..Len(s) : IsSpace(s[j])
       IN SubSeq(s, lo, hi)

\* k in s  (substring containment)
Contains(s, k) == \E i \in 0..(Len(s) - Len(k)) : SubSeq(s, i + 1, i + Len(k)) = k

\* str.startswith()
StartsWith(s, p) == Len(p) <= Len(s) /\ SubSeq(s, 1, Len(p)) = p

\* a < b in Python's str ordering (code point lexicographic)
StrLess(a, b) ==
  \E i \in 1..(Len(b)) :
     /\ i <= Len(a) + 1
     /\ \A j \in 1..(i - 1) : a[j] = b[j]
     /\ (i = Len(a) + 1 \/ Ord(a[i]) < Ord(b[i]))

\* Sorted in descending order
RECURSIVE SortedDescending(_)
SortedDescending(S) ==
  IF S = {} THEN <<>>
  ELSE LET m == CHOOSE x \in S : \A y \in S \ {x} : StrLess(y, x)
       IN <<m>> \o SortedDescending(S \ {m})

\* sorted(S) for a set of str
RECURSIVE Sorted(_)
Sorted(S) ==
  IF S = {} THEN <<>>
  ELSE LET m == CHOOSE x \in S : \A y \in S \ {x} : StrLess(x, y)
       IN <<m>> \o Sorted(S \ {m})

RECURSIVE Flatten(_)
Flatten(ss) == IF ss = <<>> THEN <<>> ELSE Head(ss) \o Flatten(Tail(ss))

\* "\n".join(lines)
RECURSIVE JoinLines(_)
JoinLines(lines) ==
  IF lines = <<>> THEN <<>>
  ELSE IF Len(lines) = 1 THEN lines[1]
  ELSE lines[1] \o <<"\n">> \o JoinLines(Tail(lines))

\* str.splitlines(), for texts whose only line break is "\n"
RECURSIVE SplitLines(_)
SplitLines(text) ==
  IF text = <<>> THEN <<>>
  ELSE IF InSeq("\n", text)
       THEN LET i == CHOOSE k \in 1..Len(text) :
                        text[k] = "\n" /\ \A j \in 1..(k - 1) : text[j] # "\n"
            IN <<SubSeq(text, 1, i - 1)>> \o SplitLines(SubSeq(text, i + 1, Len(text)))
       ELSE <<text>>

\* ---------------------------------------------------------------------
\* Rule-line parser: re.search(r"\bDOMAIN(?:-SUFFIX)?\s*,\s*([^,]+)", line)
\* ---------------------------------------------------------------------
RuleKeyword == <<"D","O","M","A","I","N">>

SuffixQualifier == <<"-","S","U","F","F","I","X">>

NoMatch == [kind |-> "none"]

Token(t) == [kind |-> "token", tok |-> t]

\* first position >= j that holds no whitespace (Len+1 when there is none): \s* is greedy
SkipSpace(line, j) ==
  CHOOSE k \in j..(Len(line) + 1) :
     /\ (k = Len(line) + 1 \/ ~IsSpace(line[k]))
     /\ \A q \in j..(k - 1) : IsSpace(line[q])

\* last position of the maximal run of non-comma characters that starts at n
RunEnd(line, n) ==
  CHOOSE e \in n..Len(line) :
     /\ \A q \in n..e : line[q] # ","
     /\ (e = Len(line) \/ line[e + 1] = ",")

\* \s*,\s*([^,]+) tried at position j; the group, or NoMatch
RestAt(line, j) ==
  LET k == SkipSpace(line, j)
  IN IF k > Len(line) \/ line[k] # "," THEN NoMatch
     ELSE LET n == SkipSpace(line, k + 1)
          IN IF n <= Len(line) /\ line[n] # ","
             THEN Token(SubSeq(line, n, RunEnd(line, n)))
             \* nothing but whitespace before the next comma: \s* gives one
             \* character back and the group is that character
             ELSE IF n > k + 1 THEN Token(SubSeq(line, n - 1, n - 1))
             ELSE NoMatch

\* \b before a word character
BoundaryAt(line, i) == i = 1 \/ ~IsWord(line[i - 1])

\* the pattern tried at start position i
MatchAt(line, i) ==
  IF ~(i + 5 <= Len(line) /\ SubSeq(line, i, i + 5) = RuleKeyword /\ BoundaryAt(line, i))
  THEN NoMatch
  ELSE LET withSuffix ==
             IF i + 12 <= Len(line) /\ SubSeq(line, i + 6, i + 12) = SuffixQualifier
             THEN RestAt(line, i + 13) ELSE NoMatch
       IN IF withSuffix # NoMatch THEN withSuffix ELSE RestAt(line, i + 6)

\* re.search: the leftmost start position that matches
ReSearch(line) ==
  LET hits == {i \in 1..Len(line) : MatchAt(line, i) # NoMatch}
  IN IF hits = {} THEN NoMatch
     ELSE MatchAt(line, CHOOSE i \in hits : \A j \in hits : i <= j)

\* ParseLine without the strip() of the group
ParseLineUntrimmed(raw) ==
  LET line == Strip(raw)
  IN IF line = <<>> \/ StartsWith(line, <<"#">>) THEN NoMatch
     ELSE LET m == ReSearch(line)
          IN IF m = NoMatch THEN NoMatch ELSE Token(m.tok)

\* lines 69-77 without .lower(): the token extracted from one raw line
ParseLine(raw) ==
  LET line == Strip(raw)
  IN IF line = <<>> \/ StartsWith(line, <<"#">>) THEN NoMatch
     ELSE LET m == ReSearch(line)
          IN IF m = NoMatch THEN NoMatch ELSE Token(Strip(m.tok))

\* ---------------------------------------------------------------------
\* Classifier: any(k in d for k in keywords) and "." in d
\* ---------------------------------------------------------------------
\* Accept without the test for "."
AcceptWithoutDot(d, keywords) == \E k \in keywords : Contains(d, k)

\* any(k in d for k in keywords) and "." in d  (lines 79-80)
Accept(d, keywords) ==
  /\ \E k \in keywords : Contains(d, k)
  /\ Contains(d, <<".">>)

\* lines 77-81 for an extracted token: d = tok.lower(); domains.add(d) if accepted
AddToken(domains, tok, keywords) ==
  LET d == Lower(tok)
  IN IF Accept(d, keywords) THEN domains \cup {d} ELSE domains

\* what one line adds to the set (lines 69-81)
DomainsOfLine(raw, keywords) ==
  LET m == ParseLine(raw)
  IN IF m = NoMatch THEN {} ELSE AddToken({}, m.tok, keywords)

\* the domains one fetched text adds to the set (lines 68-81)
DomainsOfText(text, keywords) ==
  LET lines == SplitLines(text)
  IN UNION {DomainsOfLine(lines[i], keywords) : i \in 1..Len(lines)}

\* ---------------------------------------------------------------------
\* Configuration (lines 27-49, 108, 118, 128, 111-137)
\* ---------------------------------------------------------------------
GOOGLE_SOURCES ==
  << "https://raw.githubusercontent.com/blackmatrix7/ios_rule_script/master/rule/Surge/Gemini/Gemini.list",
     "https://raw.githubusercontent.com/limbopro/Profiles4limbo/main/AI_Platforms.list" >>

OPENAI_SOURCES ==
  << "https://raw.githubusercontent.com/blackmatrix7/ios_rule_script/master/rule/Surge/OpenAI/OpenAI.list",
     "https://raw.githubusercontent.com/limbopro/Profiles4limbo/main/OpenAI.list" >>

CLAUDE_SOURCES ==
  << "https://raw.githubusercontent.com/blackmatrix7/ios_rule_script/master/rule/Surge/Claude/Claude.list",
     "https://raw.githubusercontent.com/limbopro/Profiles4limbo/main/Claude.list" >>

GOOGLE_CONF == "google-ai.conf"

OPENAI_CONF == "openai.conf"

CLAUDE_CONF == "claude.conf"

ALL_CONF == "all-ai.conf"

GoogleKeywords ==
  { <<"g","o","o","g","l","e">>,
    <<"g","e","m","i","n","i">>,
    <<"d","e","e","p","m","i","n","d">>,
    <<"a","i","s","t","u","d","i","o">>,
    <<"b","a","r","d">>,
    <<"m","a","k","e","r","s","u","i","t","e">>,
    <<"p","a","l","m">> }

OpenAIKeywords ==
  { <<"o","p","e","n","a","i">>,
    <<"c","h","a","t","g","p","t">>,
    <<"o","a","i","u","s","e","r","c","o","n","t","e","n","t">>,
    <<"s","o","r","a">>,
    <<"a","p","i",".","o","p","e","n","a","i">> }

ClaudeKeywords ==
  { <<"a","n","t","h","r","o","p","i","c">>,
    <<"c","l","a","u","d","e">>,
    <<"c","l","a","u","d","e","-","a","p","i">> }

GoogleTitle ==
  <<"#"," ","=","=","=","="," ","G","o","o","g","l","e"," ","A","I"," ","/"," ","G","e","m","i","n","i"," ","=","=","=","=">>

OpenAITitle ==
  <<"#"," ","=","=","=","="," ","O","p","e","n","A","I"," ","=","=","=","=">>

ClaudeTitle ==
  <<"#"," ","=","=","=","="," ","C","l","a","u","d","e"," ","/"," ","A","n","t","h","r","o","p","i","c"," ","=","=","=","=">>

AllTitle ==
  <<"#"," ","=","=","=","="," ","A","l","l"," ","A","I"," ","P","l","a","t","f","o","r","m","s"," ","C","o","m","b","i","n","e","d"," ","=","=","=","=">>

\* the three platform groups in the order main() processes them
Groups ==
  << [sources |-> GOOGLE_SOURCES, keywords |-> GoogleKeywords, conf |-> GOOGLE_CONF, title |-> GoogleTitle],
     [sources |-> OPENAI_SOURCES, keywords |-> OpenAIKeywords, conf |-> OPENAI_CONF, title |-> OpenAITitle],
     [sources |-> CLAUDE_SOURCES, keywords |-> ClaudeKeywords, conf |-> CLAUDE_CONF, title |-> ClaudeTitle] >>

Range(s) == {s[i] : i \in 1..Len(s)}

URLS == UNION {Range(Groups[g].sources) : g \in 1..Len(Groups)}

PATHS == {GOOGLE_CONF, OPENAI_CONF, CLAUDE_CONF, ALL_CONF}

\* ---------------------------------------------------------------------
\* fetch_domains and write_conf
\* ---------------------------------------------------------------------
\* a response of requests.get + raise_for_status: the body, or an exception
Failure == [ok |-> FALSE, text |-> <<>>]

Body(text) == [ok |-> TRUE, text |-> text]

\* FetchOne assigning the set instead of adding to it
FetchOneLastWins(domains, resp, keywords) ==
  IF resp.ok THEN DomainsOfText(resp.text, keywords) ELSE domains

\* one iteration of the loop over urls (lines 58-81)
FetchOne(domains, resp, keywords) ==
  IF resp.ok THEN domains \cup DomainsOfText(resp.text, keywords) ELSE domains

\* fetch_domains(urls, keywords) against the responses w
RECURSIVE FetchFrom(_, _, _, _)
FetchFrom(domains, urls, keywords, w) ==
  IF urls = <<>> THEN domains
  ELSE FetchFrom(FetchOne(domains, w[Head(urls)], keywords), Tail(urls), keywords, w)

FetchDomains(urls, keywords, w) == FetchFrom({}, urls, keywords, w)

RulePrefix == <<"D","O","M","A","I","N","-","S","U","F","F","I","X",",">>

RuleAction == <<",","P","R","O","X","Y">>

\* f"DOMAIN-SUFFIX,{d},PROXY"
RuleLine(d) == RulePrefix \o d \o RuleAction

\* ConfText without the final "\n"
ConfTextUnterminated(domains, title) ==
  JoinLines(<<title>> \o [i \in 1..Len(domains) |-> RuleLine(domains[i])])

\* the text write_conf writes: "\n".join(lines) + "\n"
ConfText(domains, title) ==
  JoinLines(<<title>> \o [i \in 1..Len(domains) |-> RuleLine(domains[i])]) \o <<"\n">>

\* WriteConf opening the file in append mode
WriteConfAppending(fs, path, domains, title) ==
  [fs EXCEPT ![path] = fs[path] \o ConfText(domains, title)]

\* WriteConf leaving the file alone when there is no domain to write
WriteConfUnlessEmpty(fs, path, domains, title) ==
  IF domains = <<>> THEN fs ELSE [fs EXCEPT ![path] = ConfText(domains, title)]

\* write_conf(path, domains, title) on the file system fs
WriteConf(fs, path, domains, title) == [fs EXCEPT ![path] = ConfText(domains, title)]

\* AllDomains with the last group left out of the union
AllDomainsWithoutLast(lists) == Sorted(UNION {Range(lists[i]) : i \in 1..(Len(lists) - 1)})

\* sorted(set(google) | set(openai) | set(claude))  (line 136)
AllDomains(lists) == Sorted(UNION {Range(lists[i]) : i \in 1..Len(lists)})

\* FetchStep without the try/except: the exception leaves fetch_domains and main()
FetchStepUncaught(domains, resp, keywords) ==
  IF resp.ok
  THEN [pc |-> "fetch", domains |-> domains \cup DomainsOfText(resp.text, keywords), failed |-> FALSE]
  ELSE [pc |-> "aborted", domains |-> domains, failed |-> FALSE]

\* the outcome of one iteration of "for url in urls": the except clause
\* reports the failure and continues with the next url
FetchStep(domains, resp, keywords) ==
  [pc |-> "fetch", domains |-> FetchOne(domains, resp, keywords), failed |-> ~resp.ok]

\* ---------------------------------------------------------------------
\* Bounds and the inputs of the model
\* ---------------------------------------------------------------------
\* responses published by all sources together: one per line, one per empty body
MaxPublished == 2

\* lines a rule source may publish
LinePool ==
  { <<"D","O","M","A","I","N","-","S","U","F","F","I","X",",","g","e","m","i","n","i",".","g","o","o","g","l","e",".","c","o","m",",","P","R","O","X","Y">>,
    <<"D","O","M","A","I","N",",","C","l","a","u","d","e",".","O","p","e","n","A","I",".","G","o","o","g","l","e",".","c","o","m">>,
    <<"D","O","M","A","I","N","-","S","U","F","F","I","X",","," ","c","h","a","t","g","p","t",".","c","l","a","u","d","e",".","a","i"," ",",","P","R","O","X","Y">>,
    <<"D","O","M","A","I","N","-","S","U","F","F","I","X",",","b","a","r","d",",","P","R","O","X","Y">> }

\* rules of an earlier generation (not sorted, with a repeated entry)
StaleText ==
  <<"D","O","M","A","I","N","-","S","U","F","F","I","X",",","z","e","t","a",".","e","x","a","m","p","l","e",",","P","R","O","X","Y","\n","D","O","M","A","I","N","-","S","U","F","F","I","X",",","a","l","p","h","a",".","e","x","a","m","p","l","e",",","P","R","O","X","Y","\n","D","O","M","A","I","N","-","S","U","F","F","I","X",",","z","e","t","a",".","e","x","a","m","p","l","e",",","P","R","O","X","Y","\n">>

\* what the output files may hold before the first run: openai.conf does not
\* exist yet, the others hold older rules
InitialFiles == { [p \in PATHS |-> IF p = OPENAI_CONF THEN <<>> ELSE StaleText] }

\* ---------------------------------------------------------------------
\* State
\* ---------------------------------------------------------------------
VARIABLES
  web,        \* url -> what requests.get(url) yields
  files,      \* path -> text of the file
  pc,         \* "idle", "fetch", "all", "done", "aborted"; "call", "returned"
  again,      \* whether this run of main() follows an earlier one
  g,          \* index of the group being fetched
  urls,       \* the urls fetch_domains has still to iterate over
  domains,    \* the set fetch_domains is building
  lists,      \* the sorted lists google, openai, claude of main()
  attempted,  \* urls printed by "[+] Fetching" in this run
  order,      \* the same for the current call of fetch_domains, in order
  reported,   \* urls printed by "[!] Fetch failed" in this run
  updated,    \* paths printed by "[+] Updated" in this run
  before,     \* the files as they were when this run (or call) started
  arg,        \* argument of a function called on its own
  ret         \* its result

vars == <<web, files, pc, again, g, urls, domains, lists, attempted, order, reported, updated, before, arg, ret>>

NoLists == << <<>>, <<>>, <<>> >>

None == [kind |-> "unset"]

\* the locals of main() before any run
NotRun ==
  /\ again = FALSE
  /\ g = 1
  /\ urls = <<>>
  /\ domains = {}
  /\ lists = NoLists
  /\ attempted = {}
  /\ order = <<>>
  /\ reported = {}
  /\ updated = {}
  /\ before = files

Init ==
  /\ web = [url \in URLS |-> Failure]
  /\ files \in InitialFiles
  /\ arg = None
  /\ ret = None
  /\ pc = "idle"
  /\ NotRun

\* what a response counts towards MaxPublished
Weight(resp) ==
  IF ~resp.ok THEN 0
  ELSE IF resp.text = <<>> THEN 1
  ELSE Len(SplitLines(resp.text))

RECURSIVE SumWeight(_, _)
SumWeight(w, S) ==
  IF S = {} THEN 0
  ELSE LET url == CHOOSE x \in S : TRUE
       IN Weight(w[url]) + SumWeight(w, S \ {url})

\* --- the environment, before the first run: every source starts out
\* unreachable (timeout, connection error or HTTP error status) ---
\* a source answers, with an empty body
ComeUp(url) ==
  /\ pc = "idle"
  /\ ~web[url].ok
  /\ SumWeight(web, URLS) < MaxPublished
  /\ web' = [web EXCEPT ![url] = Body(<<>>)]
  /\ UNCHANGED <<files, pc, again, g, urls, domains, lists, attempted, order, reported, updated, before, arg, ret>>

\* a source publishes one more line
Publish(url, line) ==
  /\ pc = "idle"
  /\ web' = [web EXCEPT ![url] = Body(web[url].text \o line \o <<"\n">>)]
  /\ SumWeight(web', URLS) <= MaxPublished
  /\ UNCHANGED <<files, pc, again, g, urls, domains, lists, attempted, order, reported, updated, before, arg, ret>>

\* --- main() ---
\* the process starts (line 101) and calls fetch_domains(first, ...)
Start(first) ==
  /\ pc \in {"idle", "done"}
  /\ pc' = "fetch"
  /\ again' = (pc = "done")
  /\ g' = 1
  /\ urls' = first
  /\ domains' = {}
  /\ lists' = NoLists
  /\ attempted' = {}
  /\ order' = <<>>
  /\ reported' = {}
  /\ updated' = {}
  /\ before' = files
  /\ UNCHANGED <<web, files, arg, ret>>

\* one iteration of the loop of fetch_domains over urls (lines 58-81)
Fetch ==
  /\ pc = "fetch"
  /\ urls # <<>>
  /\ LET url == Head(urls)
         step == FetchStep(domains, web[url], Groups[g].keywords)
     IN /\ attempted' = attempted \cup {url}
        /\ order' = Append(order, url)
        /\ reported' = IF step.failed THEN reported \cup {url} ELSE reported
        /\ domains' = step.domains
        /\ pc' = step.pc
  /\ urls' = Tail(urls)
  /\ UNCHANGED <<web, files, again, g, lists, updated, before, arg, ret>>

\* fetch_domains returns; the group's list is sorted and written
\* (lines 83, 110-111, 120-121, 130-131); then fetch_domains(nxt, ...) is
\* called for the next group, if there is one
WriteGroup(nxt) ==
  /\ pc = "fetch"
  /\ urls = <<>>
  /\ LET sorted == Sorted(domains)
     IN /\ lists' = [lists EXCEPT ![g] = sorted]
        /\ files' = WriteConf(files, Groups[g].conf, sorted, Groups[g].title)
  /\ updated' = updated \cup {Groups[g].conf}
  /\ IF g < Len(Groups)
     THEN /\ g' = g + 1 /\ urls' = nxt /\ domains' = {} /\ order' = <<>> /\ pc' = "fetch"
     ELSE /\ pc' = "all" /\ UNCHANGED <<g, urls, domains, order>>
  /\ UNCHANGED <<web, again, attempted, reported, before, arg, ret>>

\* the combined file (lines 136-139)
WriteAll ==
  /\ pc = "all"
  /\ files' = WriteConf(files, ALL_CONF, AllDomains(lists), AllTitle)
  /\ updated' = updated \cup {ALL_CONF}
  /\ pc' = "done"
  /\ UNCHANGED <<web, again, g, urls, domains, lists, attempted, order, reported, before, arg, ret>>

\* the url list main() passes for the group after the current one
NextSources == IF g < Len(Groups) THEN Groups[g + 1].sources ELSE <<>>

Environment ==
  \/ \E url \in URLS : ComeUp(url)
  \/ \E url \in URLS, line \in LinePool : Publish(url, line)

Next ==
  \/ Environment
  \/ Start(Groups[1].sources)
  \/ Fetch
  \/ WriteGroup(NextSources)
  \/ WriteAll

Spec == Init /\ [][Next]_vars

\* ---------------------------------------------------------------------
\* Reading an output file back
\* ---------------------------------------------------------------------
EndsWith(s, p) == Len(p) <= Len(s) /\ SubSeq(s, Len(s) - Len(p) + 1, Len(s)) = p

IsRuleLine(line) ==
  /\ Len(line) >= Len(RulePrefix) + Len(RuleAction)
  /\ StartsWith(line, RulePrefix)
  /\ EndsWith(line, RuleAction)

EntryOf(line) == SubSeq(line, Len(RulePrefix) + 1, Len(line) - Len(RuleAction))

\* the domains of the rule lines of a file, with repetitions, in file order
RECURSIVE EntriesOfLines(_)
EntriesOfLines(lines) ==
  IF lines = <<>> THEN <<>>
  ELSE (IF IsRuleLine(Head(lines)) THEN <<EntryOf(Head(lines))>> ELSE <<>>)
       \o EntriesOfLines(Tail(lines))

EntryList(text) == EntriesOfLines(SplitLines(text))

Entries(text) == Range(EntryList(text))

\* the lines after the header
BodyLines(text) == Tail(SplitLines(text))

\* every lower-cased token a text holds, whatever the keywords
TokensOfText(text) ==
  LET lines == SplitLines(text)
  IN {Lower(ParseLine(lines[i]).tok) : i \in {j \in 1..Len(lines) : ParseLine(lines[j]) # NoMatch}}

Succeeded(S) == {url \in S : web[url].ok}

\* ---------------------------------------------------------------------
\* Properties of main()
\* ---------------------------------------------------------------------
ConfOf(url) == Groups[CHOOSE i \in 1..Len(Groups) : url \in Range(Groups[i].sources)].conf

\* the urls whose tokens may end up in a file
FeedersOf(path) == IF path = ALL_CONF THEN URLS ELSE {url \in URLS : ConfOf(url) = path}

\* C1: whatever sources fail, main() is never stopped by a fetch failure:
\* no exception leaves fetch_domains, every source has been attempted and
\* every failure reported once the fetching is over, and at completion
\* all four files have been written and hold only domains found in the
\* bodies of sources that answered.
C1_FetchFailureNeverAborts ==
  /\ pc # "aborted"
  /\ pc \in {"all", "done"} =>
       /\ attempted = URLS
       /\ reported = URLS \ Succeeded(URLS)
  /\ pc = "done" =>
       /\ updated = PATHS
       /\ \A p \in PATHS :
            Entries(files[p]) \subseteq
              UNION {TokensOfText(web[url].text) : url \in Succeeded(FeedersOf(p))}

\* a run completed in which one source of a group failed and the other one
\* gave the group a domain
C1_Witness ==
  /\ pc = "done"
  /\ \E i \in 1..Len(Groups) :
        /\ lists[i] # <<>>
        /\ \E url \in Range(Groups[i].sources) : url \in reported

\* C2: when a run completes, the domains of all-ai.conf are exactly the
\* domains of google-ai.conf, openai.conf and claude.conf together.
C2_CombinedIsUnion ==
  pc = "done" =>
    Entries(files[ALL_CONF]) =
      Entries(files[GOOGLE_CONF]) \cup Entries(files[OPENAI_CONF]) \cup Entries(files[CLAUDE_CONF])

\* a run completed in which the three group files hold different domain sets
C2_Witness ==
  /\ pc = "done"
  /\ Entries(files[CLAUDE_CONF]) # {}
  /\ Entries(files[GOOGLE_CONF]) # {}
  /\ Entries(files[CLAUDE_CONF]) \cap Entries(files[GOOGLE_CONF]) = {}

\* dl is strictly ascending in code point order
StrictlyAscending(dl) == \A i \in 1..(Len(dl) - 1) : StrLess(dl[i], dl[i + 1])

\* C3: in every file a run has written, each line after the header is a rule
\* line and the domains of these lines are in strictly ascending code point
\* order (so no domain is repeated).
C3_SortedWithoutRepetition ==
  \A p \in updated :
     LET body == BodyLines(files[p])
     IN /\ \A i \in 1..Len(body) : IsRuleLine(body[i])
        /\ StrictlyAscending(EntriesOfLines(body))

\* a written group file with two domains, and a written file whose one
\* domain was published by two sources
C3_Witness ==
  /\ pc = "done"
  /\ \/ \E p \in PATHS \ {ALL_CONF} : Len(EntryList(files[p])) >= 2
     \/ \E p \in PATHS \ {ALL_CONF} :
           /\ Len(EntryList(files[p])) = 1
           /\ \A url \in FeedersOf(p) : Entries(files[p]) \subseteq TokensOfText(web[url].text)

\* C6: a second run over the same fetched content leaves all four files as
\* the first run left them, whatever they held before the first run.
C6_Idempotent ==
  (pc = "done" /\ again) => files = before

\* two runs completed, the files hold domains
C6_Witness ==
  /\ pc = "done"
  /\ again
  /\ Entries(files[ALL_CONF]) # {}
  /\ Entries(files[OPENAI_CONF]) # {}

HeaderOnly(title) == title \o <<"\n">>

\* C10: a group for which fetch_domains finds nothing (all its sources fail,
\* or no line survives) has its file overwritten with the header line alone,
\* whatever the file held; if that is so for all three groups, all-ai.conf
\* is header-only too.
C10_EmptyGroupOverwritten ==
  pc = "done" =>
    /\ \A i \in 1..Len(Groups) :
          (\A url \in Range(Groups[i].sources) :
              ~web[url].ok \/ DomainsOfText(web[url].text, Groups[i].keywords) = {})
          => files[Groups[i].conf] = HeaderOnly(Groups[i].title)
    /\ (\A i \in 1..Len(Groups) : \A url \in Range(Groups[i].sources) :
              ~web[url].ok \/ DomainsOfText(web[url].text, Groups[i].keywords) = {})
       => files[ALL_CONF] = HeaderOnly(AllTitle)

\* a first run completed over files that held domains, with every source of
\* the first group failing and a line of the second group not surviving
C10_Witness ==
  /\ pc = "done"
  /\ ~again
  /\ Entries(before[GOOGLE_CONF]) # {}
  /\ Range(GOOGLE_SOURCES) \subseteq reported
  /\ \E url \in Range(OPENAI_SOURCES) : web[url].ok /\ web[url].text # <<>>
  /\ files[GOOGLE_CONF] = HeaderOnly(GoogleTitle)
  /\ files[OPENAI_CONF] = HeaderOnly(OpenAITitle)

\* ---------------------------------------------------------------------
\* Source order: a first run with the configured url lists, then runs in
\* which each call of fetch_domains gets a permutation of the group's list
\* ---------------------------------------------------------------------
Orders(s) == {p \in [1..Len(s) -> Range(s)] : Range(p) = Range(s)}

ConfiguredRun == pc = "idle" /\ Start(Groups[1].sources)

PermutedRun == pc = "done" /\ \E p \in Orders(Groups[1].sources) : Start(p)

WriteGroupPermuted ==
  IF ~again THEN WriteGroup(NextSources)
  ELSE \E p \in Orders(NextSources) : WriteGroup(p)

NextPerm ==
  \/ Environment
  \/ ConfiguredRun
  \/ PermutedRun
  \/ Fetch
  \/ WriteGroupPermuted
  \/ WriteAll

SpecPerm == Init /\ [][NextPerm]_vars

\* C7: the order of a group's source list does not matter: with the same
\* responses, fetch_domains over a permuted list returns the set it returns
\* over the configured list, and the run writes the same four files.
C7_SourceOrderIrrelevant ==
  /\ (again /\ pc = "fetch" /\ urls = <<>>) =>
       /\ domains = FetchDomains(Groups[g].sources, Groups[g].keywords, web)
       /\ domains = Entries(before[Groups[g].conf])
  /\ (again /\ pc = "done") => files = before

\* a later run has completed whose last call of fetch_domains took the
\* sources in the other order, both answered and each gave a domain of its own
C7_Witness ==
  /\ again
  /\ pc = "done"
  /\ order # Groups[g].sources
  /\ \A url \in Range(Groups[g].sources) : web[url].ok
  /\ DomainsOfText(web[Groups[g].sources[1]].text, Groups[g].keywords)
       # DomainsOfText(web[Groups[g].sources[2]].text, Groups[g].keywords)
  /\ Len(lists[g]) = 2

\* ---------------------------------------------------------------------
\* Functions called on their own
\* ---------------------------------------------------------------------
\* all sequences over S of length at most n
SeqsUpTo(S, n) == UNION {[1..k -> S] : k \in 0..n}

Whitespace == {" ", "\t"}

\* whitespace around a token
MaxPad == 1

\* parts a token is made of
MaxParts == 2

\* domains passed to write_conf
MaxDomains == 2

\* a call of a function, with nothing else going on
CallOf(inputs) ==
  /\ arg \in inputs
  /\ ret = None
  /\ pc = "call"
  /\ web = [url \in URLS |-> Failure]
  /\ NotRun

Return(value) ==
  /\ pc = "call"
  /\ ret' = value
  /\ pc' = "returned"
  /\ UNCHANGED <<web, files, again, g, urls, domains, lists, attempted, order, reported, updated, before, arg>>

\* --- the parser ---
DomainTokens ==
  { <<"e","x","a","m","p","l","e",".","c","o","m">>,
    <<"G","e","m","i","n","i",".","G","o","o","g","l","e",".","C","O","M">>,
    <<"a"," ","b",".","c","o","m">>,
    <<"x">>,
    <<"#","f","r","a","g",".","i","o">>,
    <<"D","O","M","A","I","N">> }

Comma == <<",">>

\* DOMAIN-SUFFIX,<d>,PROXY and DOMAIN,<d>,PROXY with whitespace around <d>
RuleLines ==
  { [shape |-> "rule", d |-> d,
     line |-> kw \o Comma \o l \o d \o r \o RuleAction] :
       kw \in {RuleKeyword, RuleKeyword \o SuffixQualifier},
       d \in DomainTokens,
       l \in SeqsUpTo(Whitespace, MaxPad),
       r \in SeqsUpTo(Whitespace, MaxPad) }

BlankLines == { [shape |-> "blank", d |-> <<>>, line |-> l] : l \in SeqsUpTo(Whitespace, MaxPad) }

CommentLines ==
  { [shape |-> "comment", d |-> <<>>, line |-> l] :
       l \in { <<"#">>,
               <<"#"," ","c","o","m","m","e","n","t">>,
               <<"#","D","O","M","A","I","N","-","S","U","F","F","I","X",",","g","o","o","g","l","e",".","c","o","m",",","P","R","O","X","Y">>,
               <<"#"," ","D","O","M","A","I","N",",","x",".","y">> } }

\* lines that are no DOMAIN or DOMAIN-SUFFIX rule
OtherLines ==
  { [shape |-> "other", d |-> <<>>, line |-> l] :
       l \in { <<"I","P","-","C","I","D","R",",","1",".","2",".","3",".","4","/","3","2",",","P","R","O","X","Y">>,
               <<"D","O","M","A","I","N","-","K","E","Y","W","O","R","D",",","g","o","o","g","l","e",",","P","R","O","X","Y">>,
               <<"X","D","O","M","A","I","N",",","g","o","o","g","l","e",".","c","o","m",",","P","R","O","X","Y">>,
               <<"M","Y","_","D","O","M","A","I","N",",","g","o","o","g","l","e",".","c","o","m",",","P","R","O","X","Y">>,
               <<"D","O","M","A","I","N">>,
               <<"D","O","M","A","I","N","-","S","U","F","F","I","X">>,
               <<"D","O","M","A","I","N",",">>,
               <<"D","O","M","A","I","N","-","S","U","F","F","I","X",",",",","P","R","O","X","Y">>,
               <<"g","o","o","g","l","e",".","c","o","m">>,
               <<"D","O","M","A","I","N",";","g","o","o","g","l","e",".","c","o","m">>,
               <<"D","O","M","A","I","N","-","S","U","F","F","I","X","g","o","o","g","l","e",".","c","o","m",",","P","R","O","X","Y">>,
               <<"U","S","E","R","-","A","G","E","N","T",",","G","e","m","i","n","i","*",",","P","R","O","X","Y">> } }

ParseInputs == RuleLines \cup BlankLines \cup CommentLines \cup OtherLines

InitParse == files = [p \in PATHS |-> <<>>] /\ CallOf(ParseInputs)

CallParseLine == Return(ParseLine(arg.line))

SpecParse == InitParse /\ [][CallParseLine]_vars

\* C8: from "DOMAIN-SUFFIX,<d>,PROXY" and "DOMAIN,<d>,PROXY" the parser
\* extracts <d> without the whitespace around it; from an empty, blank or
\* "#" line, or a line that is no such rule, it extracts nothing; it never
\* raises.
C8_ParserExtractsToken ==
  pc = "returned" =>
    /\ ret.kind \in {"none", "token"}
    /\ arg.shape = "rule" => ret = Token(arg.d)
    /\ arg.shape \in {"blank", "comment", "other"} => ret = NoMatch

\* a rule line with whitespace around a mixed-case token has been parsed
C8_Witness ==
  /\ pc = "returned"
  /\ arg.shape = "rule"
  /\ Len(arg.line) = Len(RuleKeyword) + 1 + Len(arg.d) + 2 + Len(RuleAction)
  /\ Lower(arg.d) # arg.d
  /\ ret.kind = "token"

\* --- the classifier ---
TokenParts ==
  { <<"g","e","m","i","n","i">>,
    <<"C","h","a","t","G","P","T">>,
    <<"c","l","a","u","d","e">>,
    <<".">>,
    <<"c","o","m">>,
    <<"x">> }

TokensUpTo(n) == {Flatten(ps) : ps \in SeqsUpTo(TokenParts, n)}

ClassifyInputs ==
  { [tok |-> tk, group |-> i, domains |-> ds] :
       tk \in TokensUpTo(MaxParts),
       i \in 1..Len(Groups),
       ds \in { {}, {<<"o","l","d",".","c","l","a","u","d","e",".","a","i">>} } }

InitClassify == files = [p \in PATHS |-> <<>>] /\ CallOf(ClassifyInputs)

CallAddToken == Return(AddToken(arg.domains, arg.tok, Groups[arg.group].keywords))

SpecClassify == InitClassify /\ [][CallAddToken]_vars

\* k occurs in d at some position
OccursIn(k, d) ==
  \E i \in 1..Len(d) : \A j \in 1..Len(k) : i + j - 1 <= Len(d) /\ d[i + j - 1] = k[j]

HasUpper(d) == \E i \in 1..Len(d) : InSeq(d[i], UPPER)

HasDot(d) == \E i \in 1..Len(d) : d[i] = "."

\* C4: a token is added to the group's set exactly when its lower-cased form
\* contains a keyword of the group and a "."; what is added is the
\* lower-cased token, so it has no upper-case letter and has a ".".
C4_AddedIffKeywordAndDot ==
  pc = "returned" =>
    LET d == Lower(arg.tok)
        kws == Groups[arg.group].keywords
    IN /\ ((\E k \in kws : OccursIn(k, d)) /\ HasDot(d)) => ret = arg.domains \cup {d}
       /\ ~((\E k \in kws : OccursIn(k, d)) /\ HasDot(d)) => ret = arg.domains
       /\ \A x \in ret \ arg.domains : ~HasUpper(x) /\ HasDot(x) /\ Len(x) = Len(arg.tok)

\* a token with upper-case letters has been added, lower-cased
C4_Witness ==
  /\ pc = "returned"
  /\ HasUpper(arg.tok)
  /\ ret # arg.domains
  /\ arg.domains # {}

\* --- write_conf ---
DefaultTitle ==
  <<"#"," ","A","u","t","o"," ","g","e","n","e","r","a","t","e","d">>

WriteDomains ==
  { <<"b",".","c","o","m">>,
    <<"a",".","c","o","m">>,
    <<"g","e","m","i","n","i",".","g","o","o","g","l","e",".","c","o","m">> }

WriteInputs ==
  { [path |-> p, domains |-> ds, title |-> ti] :
       p \in PATHS,
       ds \in SeqsUpTo(WriteDomains, MaxDomains),
       ti \in {DefaultTitle, AllTitle} }

InitWrite == files \in InitialFiles /\ CallOf(WriteInputs)

CallWriteConf ==
  /\ pc = "call"
  /\ files' = WriteConf(files, arg.path, arg.domains, arg.title)
  /\ pc' = "returned"
  /\ UNCHANGED <<web, again, g, urls, domains, lists, attempted, order, reported, updated, before, arg, ret>>

SpecWrite == InitWrite /\ [][CallWriteConf]_vars

\* C5: after write_conf(path, domains, title) the file is the title and a
\* line break, then for each domain in the given order the line
\* DOMAIN-SUFFIX,<d>,PROXY and a line break; nothing of the old content is
\* left and no other file has changed.
C5_WriteConfContent ==
  pc = "returned" =>
    /\ files[arg.path] =
         arg.title \o <<"\n">> \o
         Flatten([i \in 1..Len(arg.domains) |->
                    RulePrefix \o arg.domains[i] \o RuleAction \o <<"\n">>])
    /\ \A q \in PATHS \ {arg.path} : files[q] = before[q]

\* write_conf has replaced older rules by two domains given in descending order
C5_Witness ==
  /\ pc = "returned"
  /\ before[arg.path] = StaleText
  /\ Len(arg.domains) = 2
  /\ StrLess(arg.domains[2], arg.domains[1])
  /\ files[arg.path] # before[arg.path]

\* ---------------------------------------------------------------------
\* Incremental append mode (described by the specification only)
\* ---------------------------------------------------------------------
\* the DOMAIN-SUFFIX entries a rule file declares: the field after the
\* first comma of every line that starts with DOMAIN-SUFFIX,
ExistingEntries(text) ==
  LET lines == SplitLines(text)
  IN {SubSeq(lines[i], Len(RulePrefix) + 1, RunEnd(lines[i], Len(RulePrefix) + 1)) :
        i \in {j \in 1..Len(lines) :
                 StartsWith(lines[j], RulePrefix) /\ Len(lines[j]) > Len(RulePrefix)
                 /\ lines[j][Len(RulePrefix) + 1] # ","}}

\* NewDomains without the subtraction of the existing entries
NewDomainsAll(candidates, text) == Sorted(candidates)

\* the candidates the file does not declare yet, sorted
NewDomains(candidates, text) == Sorted(candidates \ ExistingEntries(text))

\* text without the line breaks at its end
RECURSIVE DropFinalBreaks(_)
DropFinalBreaks(text) ==
  IF text # <<>> /\ text[Len(text)] = "\n" THEN DropFinalBreaks(SubSeq(text, 1, Len(text) - 1))
  ELSE text

SectionHeader ==
  <<"#"," ","=","=","=","="," ","A","u","t","o"," ","a","p","p","e","n","d","e","d"," ","=","=","=","=">>

\* the existing lines, one blank line, the section header, one rule line
\* per new domain
AppendText(text, new) ==
  DropFinalBreaks(text) \o <<"\n", "\n">> \o SectionHeader \o <<"\n">> \o
  Flatten([i \in 1..Len(new) |-> RuleLine(new[i]) \o <<"\n">>])

\* lines of the file being appended to
MaxOldLines == 2

OldLines ==
  { <<"#"," ","=","=","=","="," ","G","o","o","g","l","e"," ","A","I"," ","=","=","=","=">>,
    <<"D","O","M","A","I","N","-","S","U","F","F","I","X",",","g","e","m","i","n","i",".","g","o","o","g","l","e",".","c","o","m",",","P","R","O","X","Y">>,
    <<"D","O","M","A","I","N","-","S","U","F","F","I","X",",","b","a","r","d",".","g","o","o","g","l","e",".","c","o","m",",","P","R","O","X","Y">>,
    <<>> }

Candidates ==
  { <<"g","e","m","i","n","i",".","g","o","o","g","l","e",".","c","o","m">>,
    <<"B","a","r","d",".","G","o","o","g","l","e",".","c","o","m">>,
    <<"a","i",".","g","o","o","g","l","e",".","d","e","v">> }

AppendInputs ==
  { [text |-> Flatten([i \in 1..Len(ls) |-> ls[i] \o <<"\n">>]), candidates |-> c] :
       ls \in SeqsUpTo(OldLines, MaxOldLines),
       c \in SUBSET Candidates }

InitAppend == files = [p \in PATHS |-> <<>>] /\ CallOf(AppendInputs)

CallAppend == Return(AppendText(arg.text, NewDomains(arg.candidates, arg.text)))

SpecAppend == InitAppend /\ [][CallAppend]_vars

Count(d, list) == Cardinality({i \in 1..Len(list) : list[i] = d})

\* C9: after an append the rule entries of the file are those it had plus
\* the candidates it did not have; every old entry is still there, in place
\* and as often as before, and every added entry occurs once.
C9_AppendIsAdditive ==
  pc = "returned" =>
    LET old == EntryList(arg.text)
        new == EntryList(ret)
    IN /\ Range(new) = Range(old) \cup (arg.candidates \ Range(old))
       /\ SubSeq(new, 1, Len(old)) = old
       /\ \A d \in Range(new) :
            Count(d, new) = IF d \in Range(old) THEN Count(d, old) ELSE 1

\* an append to a file with entries, of a candidate it had and one it had not
C9_Witness ==
  /\ pc = "returned"
  /\ arg.candidates \cap Entries(arg.text) # {}
  /\ arg.candidates \ Entries(arg.text) # {}
  /\ Len(EntryList(ret)) > Len(EntryList(arg.text))

====
